---- MODULE Spec2Model ----
(***************************************************************************)
(* Model of lib/BlackjackLibraries.py: cards, the hand scoring engine      *)
(* (Hand, SplitHand, DealerHand and Hand.receive_card) and the player's    *)
(* bet bookkeeping (Player.validate_bet, create_hand, split_hand,          *)
(* update_bet, create_insurance_bet).                                      *)
(*                                                                         *)
(* Python objects are records whose fields are the object's attributes;    *)
(* an attribute an object does not have is a field the record does not     *)
(* have.  None is the empty sequence and a present value x is <<x>>.       *)
(***************************************************************************)
EXTENDS Integers, Sequences, FiniteSets, TLC

VARIABLES hand, player, pc, frame, call, ret, antes, shoe, drawn

vars == <<hand, player, pc, frame, call, ret, antes, shoe, drawn>>

(***************************************************************************)
(* Bounds of the model.                                                    *)
(***************************************************************************)
\* most cards a stand-alone hand receives
MaxCards == 3
\* most cards a hand held by the player receives where the cards matter
MaxPlayerCards == 3
\* most cards a hand held by the player receives where the bets matter
MaxBetCards == 2
\* largest bank a player is constructed with
MaxBank == 5
\* largest reserve a player is constructed with
MaxReserve == 1
\* largest amount offered as a bet or a raise
MaxAmt == 3
\* largest number of decks a shoe is constructed with
MaxDecks == 2
\* most cards a hand held by the player receives where busting matters
MaxBustCards == 4

(***************************************************************************)
(* Cards.                                                                  *)
(***************************************************************************)
RANKS == <<"A", "2", "3", "4", "5", "6", "7", "8", "9", "10", "J", "Q", "K">>

SUITS == <<"S", "D", "H", "C">>

\* int(self.rank) for the ranks it parses; the face cards raise ValueError
IntOfRank == [r \in {"2", "3", "4", "5", "6", "7", "8", "9", "10"} |->
                CASE r = "2" -> 2 [] r = "3" -> 3 [] r = "4" -> 4
                  [] r = "5" -> 5 [] r = "6" -> 6 [] r = "7" -> 7
                  [] r = "8" -> 8 [] r = "9" -> 9 [] r = "10" -> 10]

\* Card(rank, suit) for a valid rank and suit
Card(rank, suit) ==
    [type |-> "Card", rank |-> rank, suit |-> suit,
     value |-> IF rank \in DOMAIN IntOfRank THEN IntOfRank[rank] ELSE 10]

\* Ace(suit) for a valid suit
Ace(suit) ==
    [type |-> "Ace", rank |-> "A", suit |-> suit, value |-> 1,
     additional_value |-> 11]

\* the card Deck.__init__ builds for a rank and a suit
DeckCard(rank, suit) == IF rank = "A" THEN Ace(suit) ELSE Card(rank, suit)

Range(s) == {s[i] : i \in DOMAIN s}

\* the 52 cards of one deck
DeckCards == {DeckCard(r, s) : r \in Range(RANKS), s \in Range(SUITS)}

\* the cards dealt to a stand-alone hand: every rank in one suit, and the Ace
\* and the King in a second suit
DealtCards ==
    {c \in DeckCards : c.suit = "S" \/ (c.suit = "H" /\ c.rank \in {"A", "K"})}

\* the cards dealt to a player's hands where the cards matter
PlayerCards == {Ace("S"), Card("K", "H")}

\* the cards dealt to a player's hands where the bets matter
BetCards == {Card("8", "S")}

(***************************************************************************)
(* Python object helpers.                                                  *)
(***************************************************************************)
None == <<>>

Some(x) == <<x>>

\* self.name = val: sets the attribute, creating it when it does not exist
SetAttr(obj, name, val) ==
    [f \in DOMAIN obj \cup {name} |-> IF f = name THEN val ELSE obj[f]]

HasAttr(obj, name) == name \in DOMAIN obj

(***************************************************************************)
(* Deck and CardShoe.                                                      *)
(***************************************************************************)
\* the list deck of Deck.__init__ before it is shuffled: the ranks in order,
\* and the four suits within each rank
UnshuffledDeck ==
    [i \in 1 .. Len(RANKS) * Len(SUITS) |->
        DeckCard(RANKS[((i - 1) \div Len(SUITS)) + 1],
                 SUITS[((i - 1) % Len(SUITS)) + 1])]

\* a shuffle of n cards that cuts the pack after k cards
Cut(n, k) == [i \in 1 .. n |-> ((i - 1 + k) % n) + 1]

\* a shuffle of n cards that turns the pack over
Reversed(n) == [i \in 1 .. n |-> n + 1 - i]

\* the outcomes of rd.shuffle and rd.randint that are tried: two of the
\* permutations of the deck
Shuffles ==
    {Cut(Len(UnshuffledDeck), 7), Reversed(Len(UnshuffledDeck))}

\* Deck(), its shuffle having produced the given permutation
Deck__init__(shuffle) ==
    [length |-> 52,
     shuffled_deck |-> [i \in DOMAIN UnshuffledDeck |->
                          UnshuffledDeck[shuffle[i]]]]

\* the decks of a list put end to end
RECURSIVE Extend(_, _)
Extend(decks, n) ==
    IF n = 0 THEN <<>>
    ELSE Extend(decks, n - 1) \o decks[n].shuffled_deck

\* cs_size is an integer outside [1, 8]: CardShoe raises ValueError
BadShoeSize(cs_size) == ~(1 <= cs_size /\ cs_size <= 8)

\* CardShoe(cs_size), its Deck objects having been shuffled as given
CardShoe__init__(cs_size, shuffles) ==
    [length |-> 52 * cs_size,
     shuffled_deck |-> Extend([i \in 1 .. cs_size |->
                                 Deck__init__(shuffles[i])], cs_size)]

\* what a call raised, kept apart from the cards a call returns
Raised(name) == [raised |-> name]

\* remove_top that pops the last card
remove_top_PopsLast(s) ==
    IF s.shuffled_deck = <<>>
    THEN [shoe |-> s, ret |-> Raised("IndexError")]
    ELSE [shoe |-> [s EXCEPT !.shuffled_deck =
                        SubSeq(@, 1, Len(@) - 1)],
          ret |-> s.shuffled_deck[Len(s.shuffled_deck)]]

\* Deck.remove_top(): the shoe it leaves and the card it returns;
\* list.pop(0) raises IndexError on an empty list
remove_top(s) ==
    IF s.shuffled_deck = <<>>
    THEN [shoe |-> s, ret |-> Raised("IndexError")]
    ELSE [shoe |-> [s EXCEPT !.shuffled_deck = Tail(@)],
          ret |-> Head(s.shuffled_deck)]

\* no shoe has been constructed
NoShoe == None

(***************************************************************************)
(* Hands.                                                                  *)
(***************************************************************************)
\* Hand(ante)
Hand__init__(ante) ==
    [hand_type |-> "regular", cards |-> <<>>, has_ace |-> FALSE,
     soft_score |-> 0, hard_score |-> 0, blackjack |-> FALSE,
     has_pair |-> FALSE, busted |-> FALSE, bet_amt |-> ante]

\* DealerHand()
DealerHand__init__ ==
    [hand_type |-> "dealer", cards |-> <<>>, has_ace |-> FALSE,
     soft_score |-> 0, hard_score |-> 0, blackjack |-> FALSE,
     busted |-> FALSE, insurance |-> FALSE]

\* the attributes SplitHand.__init__ sets before it receives its card
SplitHandEmpty(bet) ==
    [hand_type |-> "split", cards |-> <<>>, has_ace |-> FALSE,
     soft_score |-> 0, hard_score |-> 0, busted |-> FALSE, bet_amt |-> bet]

RECURSIVE SumValues(_)
\* for card in self.cards: hard_score += card.value
SumValues(cards) ==
    IF cards = <<>> THEN 0
    ELSE cards[1].value + SumValues(Tail(cards))

\* CheckAce that records whether the card just received is an Ace
CheckAce_LastCard(h, top_card) == SetAttr(h, "has_ace", top_card.type = "Ace")

\* if type(top_card) == Ace: self.has_ace = True
CheckAce(h, top_card) ==
    IF top_card.type = "Ace" THEN SetAttr(h, "has_ace", TRUE) ELSE h

\* CheckPair comparing the cards' values instead of their ranks
CheckPair_ByValue(h, top_card) ==
    IF h.hand_type = "regular" /\ Len(h.cards) = 1
    THEN IF h.cards[1].value = top_card.value
         THEN SetAttr(h, "has_pair", TRUE)
         ELSE h
    ELSE h

\* CheckPair comparing with the first card on every later card
CheckPair_AnyLater(h, top_card) ==
    IF h.hand_type = "regular" /\ Len(h.cards) >= 1
    THEN IF h.cards[1].rank = top_card.rank
         THEN SetAttr(h, "has_pair", TRUE)
         ELSE h
    ELSE h

\* the pair check of receive_card, made before the card is appended
CheckPair(h, top_card) ==
    IF h.hand_type = "regular" /\ Len(h.cards) = 1
    THEN IF h.cards[1].rank = top_card.rank
         THEN SetAttr(h, "has_pair", TRUE)
         ELSE h
    ELSE h

\* CheckInsurance that forgets the Ace
CheckInsurance_TenOnly(h, top_card) ==
    IF h.hand_type = "dealer" /\ Len(h.cards) = 1
    THEN IF top_card.value = 10
         THEN SetAttr(h, "insurance", TRUE)
         ELSE h
    ELSE h

\* the insurance check of receive_card, made before the card is appended
CheckInsurance(h, top_card) ==
    IF h.hand_type = "dealer" /\ Len(h.cards) = 1
    THEN IF top_card.value = 1 \/ top_card.value = 10
         THEN SetAttr(h, "insurance", TRUE)
         ELSE h
    ELSE h

\* AppendCard that puts the card at the front of the list
AppendCard_AtFront(h, top_card) ==
    SetAttr(h, "cards", <<top_card>> \o h.cards)

\* self.cards.append(top_card)
AppendCard(h, top_card) == SetAttr(h, "cards", Append(h.cards, top_card))

\* SoftCandidate that adds 10 whether or not the hand has an Ace
SoftCandidate_Always10(has_ace, hard_score) == hard_score + 10

\* the local soft_score before it is compared with 21
SoftCandidate(has_ace, hard_score) ==
    IF has_ace THEN hard_score + 10 ELSE hard_score

\* Rescore that marks the hand busted as soon as the soft score is over 21
Rescore_BustOnSoft(h) ==
    LET hard_score == SumValues(h.cards)
        soft_score == SoftCandidate(h.has_ace, hard_score)
    IN  IF soft_score > 21
        THEN LET h1 == SetAttr(h, "soft_score", hard_score)
                 h2 == SetAttr(h1, "hard_score", hard_score)
             IN  SetAttr(h2, "busted", TRUE)
        ELSE SetAttr(SetAttr(h, "soft_score", soft_score),
                     "hard_score", hard_score)

\* Rescore that scores the hand hard when the soft score is 21 or more
Rescore_HardAt21(h) ==
    LET hard_score == SumValues(h.cards)
        soft_score == SoftCandidate(h.has_ace, hard_score)
    IN  IF soft_score >= 21
        THEN LET h1 == SetAttr(h, "soft_score", hard_score)
                 h2 == SetAttr(h1, "hard_score", hard_score)
             IN  IF hard_score > 21 THEN SetAttr(h2, "busted", TRUE) ELSE h2
        ELSE SetAttr(SetAttr(h, "soft_score", soft_score),
                     "hard_score", hard_score)

\* the rescoring of receive_card: the two scores and the bust check
Rescore(h) ==
    LET hard_score == SumValues(h.cards)
        soft_score == SoftCandidate(h.has_ace, hard_score)
    IN  IF soft_score > 21
        THEN LET h1 == SetAttr(h, "soft_score", hard_score)
                 h2 == SetAttr(h1, "hard_score", hard_score)
             IN  IF hard_score > 21 THEN SetAttr(h2, "busted", TRUE) ELSE h2
        ELSE SetAttr(SetAttr(h, "soft_score", soft_score),
                     "hard_score", hard_score)

\* CheckBlackjack that tests one order of the two cards only
CheckBlackjack_OneOrder(h) ==
    IF h.hand_type # "split" /\ Len(h.cards) = 2
    THEN IF h.cards[1].value = 1 /\ h.cards[2].value = 10
         THEN SetAttr(h, "blackjack", TRUE) ELSE h
    ELSE h

\* CheckBlackjack that takes any soft 21 of two or more cards for a blackjack
CheckBlackjack_Any21(h) ==
    IF h.hand_type # "split" /\ Len(h.cards) >= 2
    THEN IF h.soft_score = 21 THEN SetAttr(h, "blackjack", TRUE) ELSE h
    ELSE h

\* CheckBlackjack that does not look at the type of the hand
CheckBlackjack_AnyType(h) ==
    IF Len(h.cards) = 2
    THEN LET h1 == IF h.cards[1].value = 1 /\ h.cards[2].value = 10
                   THEN SetAttr(h, "blackjack", TRUE) ELSE h
         IN  IF h1.cards[2].value = 1 /\ h1.cards[1].value = 10
             THEN SetAttr(h1, "blackjack", TRUE) ELSE h1
    ELSE h

\* CheckBlackjack that takes only the rank 10 for a ten-value card
CheckBlackjack_RankTen(h) ==
    IF h.hand_type # "split" /\ Len(h.cards) = 2
    THEN LET h1 == IF h.cards[1].value = 1 /\ h.cards[2].rank = "10"
                   THEN SetAttr(h, "blackjack", TRUE) ELSE h
         IN  IF h1.cards[2].value = 1 /\ h1.cards[1].rank = "10"
             THEN SetAttr(h1, "blackjack", TRUE) ELSE h1
    ELSE h

\* the blackjack check of receive_card, made after the rescoring
CheckBlackjack(h) ==
    IF h.hand_type # "split" /\ Len(h.cards) = 2
    THEN LET h1 == IF h.cards[1].value = 1 /\ h.cards[2].value = 10
                   THEN SetAttr(h, "blackjack", TRUE) ELSE h
         IN  IF h1.cards[2].value = 1 /\ h1.cards[1].value = 10
             THEN SetAttr(h1, "blackjack", TRUE) ELSE h1
    ELSE h

\* Hand.receive_card(top_card), inherited by SplitHand and DealerHand
receive_card(h, top_card) ==
    CheckBlackjack(
      Rescore(
        AppendCard(
          CheckInsurance(
            CheckPair(
              CheckAce(h, top_card), top_card), top_card), top_card)))

\* SplitHand(card, bet)
SplitHand__init__(card, bet) == receive_card(SplitHandEmpty(bet), card)

(***************************************************************************)
(* The player.                                                             *)
(***************************************************************************)
\* the table limits the callers pass: 0 means no limit
TableMaxes == {0, 2}

TableMins == {0, 2}

\* the amounts offered as an ante, a bet or a raise
Amounts == 1 .. MaxAmt


WhichHands == {"one", "two"}

\* the test of Player.__init__ that raises ValueError
BankTooSmall(bank, table_min) == (bank - table_min) < 0

\* Player(name, skill, bank, reserve, table_min) when no error is raised
Player__init__(bank, reserve, table_min) ==
    [bank |-> bank - reserve, reserve |-> reserve, total_bets |-> 0,
     insurance_bet |-> None, hands |-> [one |-> None, two |-> None]]

\* Python's truth value of an optional integer: None and 0 are false
TruthyInt(opt) == opt # None /\ opt[1] # 0

\* Python's truth value of an optional hand: None and a hand whose __len__
\* is 0 are false
TruthyHand(opt) == opt # None /\ Len(opt[1].cards) # 0

\* validate_bet whose low test does not let an amount of 0 through
validate_bet_LowAtZero(p, amt, table_max, table_min) ==
    LET bet_total == p.total_bets
    IN  IF bet_total = p.bank THEN "invalid"
        ELSE IF (table_min + bet_total) > p.bank THEN "invalid"
        ELSE IF (amt + bet_total) > p.bank THEN "bank"
        ELSE IF amt > table_max /\ table_max > 0 THEN "high"
        ELSE IF table_min > amt THEN "low"
        ELSE "passed"

\* validate_bet that checks the table maximum before the bank
validate_bet_HighFirst(p, amt, table_max, table_min) ==
    LET bet_total == p.total_bets
    IN  IF bet_total = p.bank THEN "invalid"
        ELSE IF (table_min + bet_total) > p.bank THEN "invalid"
        ELSE IF amt > table_max /\ table_max > 0 THEN "high"
        ELSE IF (amt + bet_total) > p.bank THEN "bank"
        ELSE IF table_min > amt /\ amt > 0 THEN "low"
        ELSE "passed"

\* Player.validate_bet(amt, table_max, table_min); total_bets is never None
\* after __init__
validate_bet(p, amt, table_max, table_min) ==
    LET bet_total == p.total_bets
    IN  IF bet_total = p.bank THEN "invalid"
        ELSE IF (table_min + bet_total) > p.bank THEN "invalid"
        ELSE IF (amt + bet_total) > p.bank THEN "bank"
        ELSE IF amt > table_max /\ table_max > 0 THEN "high"
        ELSE IF table_min > amt /\ amt > 0 THEN "low"
        ELSE "passed"

\* the bet of an optional hand, 0 when the hand does not exist
HandBet(opt) == IF opt # None THEN opt[1].bet_amt ELSE 0

\* update_total_bets that skips the insurance bet
update_total_bets_NoInsurance(p) ==
    [p EXCEPT !.total_bets = HandBet(p.hands.one) + HandBet(p.hands.two)]

\* Player.update_total_bets()
update_total_bets(p) ==
    LET ins == IF TruthyInt(p.insurance_bet) THEN p.insurance_bet[1] ELSE 0
    IN  [p EXCEPT !.total_bets = ins + HandBet(p.hands.one)
                                     + HandBet(p.hands.two)]

\* Player.create_split_hand(ante, which_hand, start_card)
create_split_hand(p, ante, which_hand, start_card) ==
    update_total_bets(
      [p EXCEPT !.hands[which_hand] = Some(SplitHand__init__(start_card, ante))])

\* create_hand that takes the ante out of the bank
create_hand_PaysFromBank(p, ante, table_max, table_min) ==
    LET validation == validate_bet(p, ante, table_max, table_min)
    IN  IF validation = "passed"
        THEN [player |-> update_total_bets(
                           [p EXCEPT !.hands.one = Some(Hand__init__(ante)),
                                     !.bank = @ - ante]),
              ret |-> "success"]
        ELSE [player |-> p, ret |-> validation]

\* create_hand that adds the ante to total_bets instead of recomputing it
create_hand_AddsAnte(p, ante, table_max, table_min) ==
    LET validation == validate_bet(p, ante, table_max, table_min)
    IN  IF validation = "passed"
        THEN [player |-> [p EXCEPT !.hands.one = Some(Hand__init__(ante)),
                                   !.total_bets = @ + ante],
              ret |-> "success"]
        ELSE [player |-> p, ret |-> validation]

\* Player.create_hand(ante, table_max, table_min): the player it leaves and
\* the string it returns
create_hand(p, ante, table_max, table_min) ==
    LET validation == validate_bet(p, ante, table_max, table_min)
    IN  IF validation = "passed"
        THEN [player |-> update_total_bets(
                           [p EXCEPT !.hands.one = Some(Hand__init__(ante))]),
              ret |-> "success"]
        ELSE [player |-> p, ret |-> validation]

\* update_bet that compares the raise with the bet before it validates
update_bet_BetFirst(p, amt, which_hand, table_max, table_min) ==
    LET raised_bet == amt + p.hands[which_hand][1].bet_amt
        result == validate_bet(p, raised_bet, table_max, table_min)
    IN  IF amt > p.hands[which_hand][1].bet_amt
        THEN [player |-> p, ret |-> "bet"]
        ELSE IF result # "passed"
        THEN [player |-> p, ret |-> result]
        ELSE [player |-> update_total_bets(
                           [p EXCEPT !.hands[which_hand] =
                               Some([@[1] EXCEPT !.bet_amt = @ + amt])]),
              ret |-> "success"]

\* update_bet that validates the raise alone instead of the raised bet
update_bet_ValidatesRaise(p, amt, which_hand, table_max, table_min) ==
    LET result == validate_bet(p, amt, table_max, table_min)
    IN  IF result # "passed"
        THEN [player |-> p, ret |-> result]
        ELSE IF amt > p.hands[which_hand][1].bet_amt
        THEN [player |-> p, ret |-> "bet"]
        ELSE [player |-> update_total_bets(
                           [p EXCEPT !.hands[which_hand] =
                               Some([@[1] EXCEPT !.bet_amt = @ + amt])]),
              ret |-> "success"]

\* Player.update_bet(amt, which_hand, table_max, table_min): the player it
\* leaves and the string it returns
update_bet(p, amt, which_hand, table_max, table_min) ==
    LET raised_bet == amt + p.hands[which_hand][1].bet_amt
        result == validate_bet(p, raised_bet, table_max, table_min)
    IN  IF result # "passed"
        THEN [player |-> p, ret |-> result]
        ELSE IF amt > p.hands[which_hand][1].bet_amt
        THEN [player |-> p, ret |-> "bet"]
        ELSE [player |-> update_total_bets(
                           [p EXCEPT !.hands[which_hand] =
                               Some([@[1] EXCEPT !.bet_amt = @ + amt])]),
              ret |-> "success"]

\* create_insurance_bet that adds the bet to total_bets instead of
\* recomputing it
create_insurance_bet_AddsBet(p, amt, table_max, table_min) ==
    LET result == validate_bet(p, amt, table_max, table_min)
    IN  IF result # "passed"
        THEN [player |-> p, ret |-> result]
        ELSE [player |-> [p EXCEPT !.insurance_bet = Some(amt),
                                   !.total_bets = @ + amt],
              ret |-> "success"]

\* Player.create_insurance_bet(amt, table_max, table_min): the player it
\* leaves and the string it returns
create_insurance_bet(p, amt, table_max, table_min) ==
    LET result == validate_bet(p, amt, table_max, table_min)
    IN  IF result # "passed"
        THEN [player |-> p, ret |-> result]
        ELSE [player |-> update_total_bets(
                           [p EXCEPT !.insurance_bet = Some(amt)]),
              ret |-> "success"]

\* Player.split_check()
split_check(p) ==
    IF TruthyHand(p.hands.one)
    THEN IF p.hands.one[1].hand_type = "regular"
         THEN p.hands.one[1].has_pair
         ELSE FALSE
    ELSE FALSE

\* Player.__len__()
Player__len__(p) ==
    (IF p.hands.one # None /\ ~p.hands.one[1].busted THEN 1 ELSE 0)
    + (IF p.hands.two # None /\ ~p.hands.two[1].busted THEN 1 ELSE 0)

\* the locals of split_hand when it is not running
NoFrame ==
    [table_max |-> 0, table_min |-> 0, orig_bet |-> None, card_1 |-> None,
     card_2 |-> None]

\* the bet each hand of the player was created with: what Hand.__init__ and
\* SplitHand.__init__ were given as ante or bet
NoAntes == [one |-> None, two |-> None]

(***************************************************************************)
(* Initial states.                                                         *)
(***************************************************************************)
\* a player constructed without error, no operation called yet
InitPlayer ==
    /\ \E bank \in 0 .. MaxBank, reserve \in 0 .. MaxReserve,
          table_min \in TableMins :
          /\ ~BankTooSmall(bank, table_min)
          /\ player = Player__init__(bank, reserve, table_min)
    /\ pc = "idle"
    /\ frame = NoFrame
    /\ call = "__init__"
    /\ ret = None
    /\ antes = NoAntes
    /\ shoe = NoShoe
    /\ drawn = <<>>

Init ==
    /\ InitPlayer
    /\ hand = DealerHand__init__

\* a shoe of 1 to MaxDecks decks, constructed and not yet drawn from
InitShoe ==
    /\ \E cs_size \in 1 .. MaxDecks :
          /\ ~BadShoeSize(cs_size)
          /\ \E shuffles \in [1 .. cs_size -> Shuffles] :
                shoe = CardShoe__init__(cs_size, shuffles)
    /\ drawn = <<>>
    /\ hand = DealerHand__init__
    /\ player = Player__init__(MaxBank, 0, 0)
    /\ pc = "idle"
    /\ frame = NoFrame
    /\ call = "__init__"
    /\ ret = None
    /\ antes = NoAntes

\* a hand of any of the three types, constructed and not yet dealt to
InitHand ==
    /\ \/ hand = Hand__init__(1)
       \/ hand = DealerHand__init__
       \/ \E card \in DealtCards : hand = SplitHand__init__(card, 1)
    /\ player = Player__init__(MaxBank, 0, 0)
    /\ pc = "idle"
    /\ frame = NoFrame
    /\ call = "__init__"
    /\ ret = None
    /\ antes = NoAntes
    /\ shoe = NoShoe
    /\ drawn = <<>>

(***************************************************************************)
(* Operations on the shoe.                                                 *)
(***************************************************************************)
\* shoe.remove_top(); drawn keeps the cards returned so far, in order
RemoveTop ==
    /\ call' = "remove_top"
    /\ LET done == remove_top(shoe)
       IN  /\ shoe' = done.shoe
           /\ ret' = done.ret
           /\ drawn' = IF shoe.shuffled_deck = <<>>
                       THEN drawn
                       ELSE Append(drawn, done.ret)
    /\ UNCHANGED <<hand, player, pc, frame, antes>>

NextShoe == RemoveTop

SpecShoe == InitShoe /\ [][NextShoe]_vars

(***************************************************************************)
(* Operations on a stand-alone hand.                                       *)
(***************************************************************************)
\* hand.receive_card(top_card)
ReceiveCard(top_card) ==
    /\ Len(hand.cards) < MaxCards
    /\ hand' = receive_card(hand, top_card)
    /\ UNCHANGED <<player, pc, frame, call, ret, antes, shoe, drawn>>

NextHand == \E top_card \in DealtCards : ReceiveCard(top_card)

SpecHand == InitHand /\ [][NextHand]_vars

\* objects that are neither Card nor Ace: an int and None, which have no
\* rank and no value, and an object of another class that has both
NonCards ==
    {[type |-> "int"], [type |-> "NoneType"],
     [type |-> "Other", rank |-> "5", value |-> 5]}

\* hand.receive_card(obj) with an object that is not a card.  Nothing tests
\* its type: an object with rank and value is received like a card; for the
\* others the first read of obj.rank or obj.value raises AttributeError, in
\* the pair test of a Regular hand or the insurance test of a Dealer hand
\* that holds one card, and otherwise in the scoring loop, after the append.
\* The exception is not caught: the hand is not dealt to again.
ReceiveNonCard(obj) ==
    /\ pc = "idle"
    /\ Len(hand.cards) < MaxCards
    /\ call' = "receive_card"
    /\ IF HasAttr(obj, "rank") /\ HasAttr(obj, "value")
       THEN /\ hand' = receive_card(hand, obj)
            /\ pc' = "idle"
            /\ ret' = None
       ELSE /\ hand' = IF hand.hand_type \in {"regular", "dealer"}
                          /\ Len(hand.cards) = 1
                       THEN hand
                       ELSE AppendCard(hand, obj)
            /\ pc' = "raised"
            /\ ret' = "AttributeError"
    /\ UNCHANGED <<player, frame, antes, shoe, drawn>>

\* a hand that is handed cards and other objects until a call raises
NextTyped ==
    \/ pc = "idle" /\ \E top_card \in BetCards \cup PlayerCards :
                         ReceiveCard(top_card)
    \/ \E obj \in NonCards : ReceiveNonCard(obj)

SpecTyped == InitHand /\ [][NextTyped]_vars

(***************************************************************************)
(* Operations of the player.                                               *)
(***************************************************************************)
\* validate_bet that books the amount it has passed
ValidateBet_BooksAmount(amt, table_max, table_min) ==
    /\ pc = "idle"
    /\ call' = "validate_bet"
    /\ ret' = validate_bet(player, amt, table_max, table_min)
    /\ player' = IF ret' = "passed"
                 THEN [player EXCEPT !.total_bets = @ + amt]
                 ELSE player
    /\ UNCHANGED <<hand, pc, frame, antes, shoe, drawn>>

\* player.validate_bet(amt, table_max, table_min)
ValidateBet(amt, table_max, table_min) ==
    /\ pc = "idle"
    /\ call' = "validate_bet"
    /\ ret' = validate_bet(player, amt, table_max, table_min)
    /\ UNCHANGED <<hand, player, pc, frame, antes, shoe, drawn>>

\* player.create_hand(ante, table_max, table_min)
CreateHand(ante, table_max, table_min) ==
    /\ pc = "idle"
    /\ call' = "create_hand"
    /\ LET done == create_hand(player, ante, table_max, table_min)
       IN  /\ player' = done.player
           /\ ret' = done.ret
           /\ antes' = IF done.ret = "success"
                       THEN [antes EXCEPT !.one = Some(ante)]
                       ELSE antes
    /\ UNCHANGED <<hand, pc, frame, shoe, drawn>>

\* add_card_to_hand that returns the busted flag itself
AddCardToHand_ReturnsBusted(card, which_hand, Cap) ==
    /\ pc = "idle"
    /\ player.hands[which_hand] # None
    /\ Len(player.hands[which_hand][1].cards) < Cap
    /\ call' = "add_card_to_hand"
    /\ LET h == receive_card(player.hands[which_hand][1], card)
       IN  /\ player' = [player EXCEPT !.hands[which_hand] = Some(h)]
           /\ ret' = h.busted
    /\ UNCHANGED <<hand, pc, frame, antes, shoe, drawn>>

\* player.add_card_to_hand(card, which_hand) on a hand that exists and holds
\* fewer than Cap cards
AddCardToHand(card, which_hand, Cap) ==
    /\ pc = "idle"
    /\ player.hands[which_hand] # None
    /\ Len(player.hands[which_hand][1].cards) < Cap
    /\ call' = "add_card_to_hand"
    /\ LET h == receive_card(player.hands[which_hand][1], card)
       IN  /\ player' = [player EXCEPT !.hands[which_hand] = Some(h)]
           /\ ret' = ~h.busted
    /\ UNCHANGED <<hand, pc, frame, antes, shoe, drawn>>

\* player.split_check()
SplitCheck ==
    /\ pc = "idle"
    /\ call' = "split_check"
    /\ ret' = split_check(player)
    /\ UNCHANGED <<hand, player, pc, frame, antes, shoe, drawn>>

\* split_hand that probes without the table minimum
SplitProbe_NoTableMin(table_max, table_min) ==
    /\ pc = "idle"
    /\ split_check(player)
    /\ call' = "split_hand"
    /\ LET result == validate_bet(player, 0, table_max, 0)
       IN  IF result = "passed"
           THEN /\ pc' = "split_ask"
                /\ frame' = [NoFrame EXCEPT !.table_max = table_max,
                                            !.table_min = table_min]
                /\ ret' = None
           ELSE /\ pc' = "idle"
                /\ frame' = NoFrame
                /\ ret' = "impossible"
    /\ UNCHANGED <<hand, player, antes, shoe, drawn>>

\* split_hand that probes with a bet of 1 instead of 0
SplitProbe_ProbesOne(table_max, table_min) ==
    /\ pc = "idle"
    /\ split_check(player)
    /\ call' = "split_hand"
    /\ LET result == validate_bet(player, 1, table_max, table_min)
       IN  IF result = "passed"
           THEN /\ pc' = "split_ask"
                /\ frame' = [NoFrame EXCEPT !.table_max = table_max,
                                            !.table_min = table_min]
                /\ ret' = None
           ELSE /\ pc' = "idle"
                /\ frame' = NoFrame
                /\ ret' = "impossible"
    /\ UNCHANGED <<hand, player, antes, shoe, drawn>>

\* player.split_hand(table_max, table_min), called when split_check() is
\* true, up to the question put to the human
SplitProbe(table_max, table_min) ==
    /\ pc = "idle"
    /\ split_check(player)
    /\ call' = "split_hand"
    /\ LET result == validate_bet(player, 0, table_max, table_min)
       IN  IF result = "passed"
           THEN /\ pc' = "split_ask"
                /\ frame' = [NoFrame EXCEPT !.table_max = table_max,
                                            !.table_min = table_min]
                /\ ret' = None
           ELSE /\ pc' = "idle"
                /\ frame' = NoFrame
                /\ ret' = "impossible"
    /\ UNCHANGED <<hand, player, antes, shoe, drawn>>

\* split_hand that takes cards[0] for both hands
SplitAnswer_SameCard(answer) ==
    /\ pc = "split_ask"
    /\ CASE answer = "y" ->
              LET orig_bet == player.hands.one[1].bet_amt
                  card_1 == player.hands.one[1].cards[1]
              IN  /\ player' = create_split_hand(player, orig_bet, "one", card_1)
                  /\ antes' = [antes EXCEPT !.one = Some(orig_bet)]
                  /\ pc' = "split_loop"
                  /\ frame' = [frame EXCEPT !.orig_bet = Some(orig_bet),
                                            !.card_1 = Some(card_1),
                                            !.card_2 = Some(card_1)]
                  /\ ret' = None
         [] answer = "n" ->
              /\ pc' = "idle"
              /\ frame' = NoFrame
              /\ ret' = "declined"
              /\ player' = player
              /\ antes' = antes
         [] answer = "" ->
              /\ pc' = "idle"
              /\ frame' = NoFrame
              /\ ret' = "IndexError"
              /\ player' = player
              /\ antes' = antes
    /\ UNCHANGED <<hand, call, shoe, drawn>>

\* split_hand: the human's answer.  "y" splits off the first hand, "n"
\* declines, an empty line raises IndexError at [0]; any other answer asks
\* again and changes nothing.
SplitAnswer(answer) ==
    /\ pc = "split_ask"
    /\ CASE answer = "y" ->
              LET orig_bet == player.hands.one[1].bet_amt
                  card_1 == player.hands.one[1].cards[1]
                  card_2 == player.hands.one[1].cards[2]
              IN  /\ player' = create_split_hand(player, orig_bet, "one", card_1)
                  /\ antes' = [antes EXCEPT !.one = Some(orig_bet)]
                  /\ pc' = "split_loop"
                  /\ frame' = [frame EXCEPT !.orig_bet = Some(orig_bet),
                                            !.card_1 = Some(card_1),
                                            !.card_2 = Some(card_2)]
                  /\ ret' = None
         [] answer = "n" ->
              /\ pc' = "idle"
              /\ frame' = NoFrame
              /\ ret' = "declined"
              /\ player' = player
              /\ antes' = antes
         [] answer = "" ->
              /\ pc' = "idle"
              /\ frame' = NoFrame
              /\ ret' = "IndexError"
              /\ player' = player
              /\ antes' = antes
    /\ UNCHANGED <<hand, call, shoe, drawn>>

\* split_hand: one pass of the bet loop with an input that int() parses
SplitBet(new_bet_amt) ==
    /\ pc = "split_loop"
    /\ LET result == validate_bet(player, new_bet_amt, frame.table_max,
                                  frame.table_min)
       IN  IF result = "passed"
           THEN /\ player' = update_total_bets(
                      create_split_hand(player, new_bet_amt, "two",
                                        frame.card_2[1]))
                /\ antes' = [antes EXCEPT !.two = Some(new_bet_amt)]
                /\ pc' = "idle"
                /\ frame' = NoFrame
                /\ ret' = "success"
           ELSE /\ player' = player
                /\ antes' = antes
                /\ pc' = "split_loop"
                /\ frame' = frame
                /\ ret' = result
    /\ UNCHANGED <<hand, call, shoe, drawn>>

\* split_hand: int(new_bet) raises ValueError, which except TypeError does
\* not catch
SplitBetNotANumber ==
    /\ pc = "split_loop"
    /\ pc' = "idle"
    /\ frame' = NoFrame
    /\ ret' = "ValueError"
    /\ UNCHANGED <<hand, player, call, antes, shoe, drawn>>

\* player.update_bet(amt, which_hand, table_max, table_min) on a hand that
\* exists
UpdateBet(amt, which_hand, table_max, table_min) ==
    /\ pc = "idle"
    /\ player.hands[which_hand] # None
    /\ call' = "update_bet"
    /\ LET done == update_bet(player, amt, which_hand, table_max, table_min)
       IN  /\ player' = done.player
           /\ ret' = done.ret
    /\ UNCHANGED <<hand, pc, frame, antes, shoe, drawn>>

\* player.create_insurance_bet(amt, table_max, table_min)
CreateInsuranceBet(amt, table_max, table_min) ==
    /\ pc = "idle"
    /\ call' = "create_insurance_bet"
    /\ LET done == create_insurance_bet(player, amt, table_max, table_min)
       IN  /\ player' = done.player
           /\ ret' = done.ret
    /\ UNCHANGED <<hand, pc, frame, antes, shoe, drawn>>

\* the calls that validate or commit a bet
BetCalls(Amts, Maxes, Mins) ==
    \/ \E amt \in Amts \cup {-1, 0}, table_max \in Maxes, table_min \in Mins :
          ValidateBet(amt, table_max, table_min)
    \/ \E amt \in Amts, table_max \in Maxes, table_min \in Mins :
          CreateInsuranceBet(amt, table_max, table_min)

\* the calls that create a hand, raise its bet or deal to it
HandCalls(Cards, Cap, Amts, Maxes, Mins) ==
    \/ \E ante \in Amts, table_max \in Maxes, table_min \in Mins :
          CreateHand(ante, table_max, table_min)
    \/ \E amt \in Amts, which_hand \in WhichHands,
          table_max \in Maxes, table_min \in Mins :
          UpdateBet(amt, which_hand, table_max, table_min)
    \/ \E card \in Cards, which_hand \in WhichHands :
          AddCardToHand(card, which_hand, Cap)

\* split_check and the steps of split_hand
SplitCalls(Amts, Maxes, Mins) ==
    \/ SplitCheck
    \/ \E table_max \in Maxes, table_min \in Mins :
          SplitProbe(table_max, table_min)
    \/ \E answer \in {"y", "n", ""} : SplitAnswer(answer)
    \/ \E new_bet_amt \in Amts : SplitBet(new_bet_amt)
    \/ SplitBetNotANumber

\* the bet bookkeeping: every bank, amount and table limit, one card
Next ==
    \/ BetCalls(Amounts, TableMaxes, TableMins)
    \/ HandCalls(BetCards, MaxBetCards, Amounts, TableMaxes, TableMins)
    \/ SplitCalls(Amounts, TableMaxes, TableMins)

Spec == Init /\ [][Next]_vars

\* the hands of the player: every player card, one bank, one amount, no
\* table limits
InitCards ==
    /\ player = Player__init__(MaxBank, 0, 0)
    /\ pc = "idle"
    /\ frame = NoFrame
    /\ call = "__init__"
    /\ ret = None
    /\ antes = NoAntes
    /\ shoe = NoShoe
    /\ drawn = <<>>
    /\ hand = DealerHand__init__

\* a player with a bank of 1 and no reserve
InitOdd ==
    /\ player = Player__init__(1, 0, 0)
    /\ pc = "idle"
    /\ frame = NoFrame
    /\ call = "__init__"
    /\ ret = None
    /\ antes = NoAntes
    /\ shoe = NoShoe
    /\ drawn = <<>>
    /\ hand = DealerHand__init__

NextCards ==
    \/ HandCalls(PlayerCards, MaxPlayerCards, {1}, {0}, {0})
    \/ SplitCalls({1}, {0}, {0})

SpecCards == InitCards /\ [][NextCards]_vars

\* the amounts the code accepts although no table would: negative and zero
OddAmounts == {-1, 0, 1, 2}

\* the bets of a player who is offered negative and zero amounts
NextOdd ==
    \/ BetCalls(OddAmounts, {0}, {0})
    \/ HandCalls(BetCards, MaxBetCards, OddAmounts, {0}, {0})
    \/ SplitCalls(OddAmounts, {0}, {0})

SpecOdd == InitOdd /\ [][NextOdd]_vars

\* the cards of a pair that differ in suit
PairCards == {Card("K", "S"), Card("K", "H")}

\* the split of a pair of two different cards
NextSplit ==
    \/ BetCalls({1}, {0}, {0})
    \/ HandCalls(PairCards, MaxBetCards, {1, 2}, {0}, {0})
    \/ SplitCalls({1, 2}, {0}, {0})

SpecSplit == InitCards /\ [][NextSplit]_vars

\* the amounts offered at a table with a minimum: nothing, and the minimum
MinAmounts == {0, 2}

\* the minimum of that table
MinOnly == {2}

\* the bets of a player at a table with a minimum of 2 and no maximum
NextMin ==
    \/ BetCalls(MinAmounts, {0}, MinOnly)
    \/ HandCalls(BetCards, MaxBetCards, MinAmounts, {0}, MinOnly)
    \/ SplitCalls(MinAmounts, {0}, MinOnly)

SpecMin == InitCards /\ [][NextMin]_vars

\* the card that busts a hand with its third copy
BustCards == {Card("K", "H")}

\* the hands of a player who is dealt to beyond the bust
NextBust ==
    \/ HandCalls(BustCards, MaxBustCards, {1}, {0}, {0})
    \/ SplitCalls({1}, {0}, {0})

SpecBust == InitCards /\ [][NextBust]_vars

(***************************************************************************)
(* Properties of the hand scoring engine.                                  *)
(***************************************************************************)
\* the flag is an attribute of the hand and is true
FlagTrue(h, name) == HasAttr(h, name) /\ h[name] = TRUE

\* the ranks of the cards, in deal order
RanksOf(cards) == [i \in DOMAIN cards |-> cards[i].rank]

\* the number of Aces among the cards
AceCount(cards) == Cardinality({i \in DOMAIN cards : cards[i].rank = "A"})

\* the total of the cards with every Ace counted as 1
RECURSIVE LowTotal(_, _)
LowTotal(cards, n) ==
    IF n = 0 THEN 0 ELSE LowTotal(cards, n - 1) + cards[n].value

\* the totals obtainable by counting each Ace as 1 or as 11
Totals(cards) ==
    {LowTotal(cards, Len(cards)) + 10 * k : k \in 0 .. AceCount(cards)}

\* the highest total not above 21, when there is one
BestTotal(cards) ==
    CHOOSE t \in Totals(cards) :
        /\ t <= 21
        /\ \A u \in Totals(cards) : u <= 21 => u <= t

\* one value-1 card and one value-10 card, in either order
IsNatural(c1, c2) ==
    \/ c1.value = 1 /\ c2.value = 10
    \/ c1.value = 10 /\ c2.value = 1

\* C1: for every hand type and after any sequence of receive_card calls,
\* hard_score <= soft_score, and the two are equal when has_ace is false.
C1_HardLeSoft ==
    /\ hand.hard_score <= hand.soft_score
    /\ ~hand.has_ace => hand.soft_score = hand.hard_score

C1_Witness ==
    /\ Len(hand.cards) = 3
    /\ hand.has_ace
    /\ hand.soft_score = hand.hard_score + 10

\* C2: in every state reachable by receive_card calls on a hand of any type,
\* busted is true if and only if hard_score > 21.
C2_BustedIffHardOver21 == hand.busted <=> hand.hard_score > 21

C2_Witness ==
    /\ hand.busted
    /\ hand.hard_score = 29
    /\ Len(hand.cards) = 3

\* C3: after every receive_card soft_score is hard_score + 10 when the hand
\* holds an Ace and hard_score + 10 <= 21, and hard_score otherwise; for a
\* hand that is not busted it is the highest total not above 21 obtainable
\* by counting each Ace as 1 or as 11; [Ace, Ace, 9] gives hard_score 11,
\* soft_score 21, busted false and no blackjack.
C3_SoftScoreRule ==
    /\ hand.soft_score =
          IF AceCount(hand.cards) > 0 /\ hand.hard_score + 10 <= 21
          THEN hand.hard_score + 10
          ELSE hand.hard_score
    /\ ~hand.busted => hand.soft_score = BestTotal(hand.cards)
    /\ RanksOf(hand.cards) = <<"A", "A", "9">> =>
          /\ hand.hard_score = 11
          /\ hand.soft_score = 21
          /\ ~hand.busted
          /\ ~FlagTrue(hand, "blackjack")

C3_Witness ==
    /\ RanksOf(hand.cards) = <<"A", "A", "9">>
    /\ hand.soft_score = 21

\* C4 as claimed: for Regular and Dealer hands blackjack is true if and only
\* if the hand holds exactly 2 cards, one of value 1 and one of value 10.
C4_BlackjackIffExactlyTwo ==
    hand.hand_type # "split" =>
        (hand.blackjack <=>
            /\ Len(hand.cards) = 2
            /\ IsNatural(hand.cards[1], hand.cards[2]))

\* C4 as amended: for Regular and Dealer hands blackjack is true if and only
\* if the hand holds at least 2 cards and its first two cards are one card of
\* value 1 and one card of value 10.
C4_BlackjackIffFirstTwo ==
    hand.hand_type # "split" =>
        (hand.blackjack <=>
            /\ Len(hand.cards) >= 2
            /\ IsNatural(hand.cards[1], hand.cards[2]))

C4_Witness ==
    /\ hand.hand_type # "split"
    /\ Len(hand.cards) = 3
    /\ hand.blackjack
    /\ hand.cards[1].value = 10
    /\ hand.cards[2].value = 1

\* C5: a Regular or Dealer hand gains blackjack only with its second card;
\* when blackjack is false after the second card it stays false after every
\* later receive_card, also when a score of the longer hand is 21.
C5_BlackjackOnlyOnFirstTwo ==
    [][hand.hand_type # "split" =>
          /\ (~hand.blackjack /\ hand'.blackjack) => Len(hand'.cards) = 2
          /\ (Len(hand.cards) >= 2 /\ ~hand.blackjack) => ~hand'.blackjack
      ]_vars

C5_Witness ==
    /\ hand.hand_type # "split"
    /\ Len(hand.cards) = 3
    /\ hand.soft_score = 21
    /\ ~hand.blackjack

\* C6 as claimed: has_pair is true if and only if the hand is Regular, holds
\* exactly 2 cards, and both cards have the same rank.
C6_PairIffExactlyTwo ==
    FlagTrue(hand, "has_pair") <=>
        /\ hand.hand_type = "regular"
        /\ Len(hand.cards) = 2
        /\ hand.cards[1].rank = hand.cards[2].rank

\* C6 as amended: has_pair is true if and only if the hand is Regular, holds
\* at least 2 cards, and its first two cards have the same rank.
C6_PairIffFirstTwo ==
    FlagTrue(hand, "has_pair") <=>
        /\ hand.hand_type = "regular"
        /\ Len(hand.cards) >= 2
        /\ hand.cards[1].rank = hand.cards[2].rank

C6_Witness ==
    /\ hand.hand_type = "regular"
    /\ Len(hand.cards) = 3
    /\ hand.has_pair
    /\ hand.cards[1].suit # hand.cards[2].suit

\* C7: has_pair of a Regular hand is decided when the second card is
\* received, true iff that card's rank equals the first card's rank; no
\* third or later card changes it, whatever its rank.
C7_PairDecidedOnSecondCard ==
    [][hand.hand_type = "regular" =>
          /\ Len(hand.cards) = 0 => ~hand'.has_pair
          /\ Len(hand.cards) = 1 =>
                (hand'.has_pair <=> hand'.cards[2].rank = hand.cards[1].rank)
          /\ Len(hand.cards) >= 2 => hand'.has_pair = hand.has_pair
      ]_vars

C7_Witness ==
    /\ hand.hand_type = "regular"
    /\ Len(hand.cards) = 3
    /\ hand.cards[1].rank # hand.cards[2].rank
    /\ hand.cards[3].rank = hand.cards[1].rank
    /\ ~hand.has_pair

\* C8: a Dealer hand's insurance is false until the second card is received,
\* that receive_card sets it to true iff the card's value is 1 or 10, and no
\* later receive_card changes it.
C8_InsuranceFixedBySecondCard ==
    /\ [](hand.hand_type = "dealer" /\ Len(hand.cards) < 2 => ~hand.insurance)
    /\ [][hand.hand_type = "dealer" =>
            /\ Len(hand.cards) = 1 =>
                  (hand'.insurance <=> hand'.cards[2].value \in {1, 10})
            /\ Len(hand.cards) >= 2 => hand'.insurance = hand.insurance
        ]_vars

C8_Witness ==
    /\ hand.hand_type = "dealer"
    /\ Len(hand.cards) = 3
    /\ hand.cards[2].value = 1
    /\ hand.insurance
    /\ hand.cards[3].value \notin {1, 10}

(***************************************************************************)
(* Properties of the player.                                               *)
(***************************************************************************)
\* the slot holds a Split hand
IsSplit(opt) == opt # None /\ opt[1].hand_type = "split"

\* C9: after create_hand and a split, whatever cards the Split hands receive
\* and whatever raises are made on them, no Split hand has a blackjack or a
\* has_pair flag that is true, and split_check returns False.
C9_SplitHandsKeepNoFlags ==
    /\ \A w \in WhichHands :
          IsSplit(player.hands[w]) =>
              /\ ~FlagTrue(player.hands[w][1], "blackjack")
              /\ ~FlagTrue(player.hands[w][1], "has_pair")
    /\ IsSplit(player.hands.one) =>
          /\ split_check(player) = FALSE
          /\ call = "split_check" => ret = FALSE

C9_Witness ==
    /\ IsSplit(player.hands.one)
    /\ IsSplit(player.hands.two)
    /\ RanksOf(player.hands.one[1].cards) = <<"K", "A">>
    /\ RanksOf(player.hands.two[1].cards) = <<"K", "K">>
    /\ player.hands.one[1].bet_amt = 2
    /\ call = "split_check"
    /\ ret = FALSE

\* the verdict of the first rule that matches, in the order of the claim
RuleVerdict(bank, total_bets, amt, table_max, table_min) ==
    CASE total_bets = bank \/ table_min + total_bets > bank -> "invalid"
      [] OTHER ->
         CASE amt + total_bets > bank -> "bank"
           [] OTHER ->
              CASE table_max > 0 /\ amt > table_max -> "high"
                [] OTHER ->
                   CASE table_min > 0 /\ 0 < amt /\ amt < table_min -> "low"
                     [] OTHER -> "passed"

\* the amounts and table limits the rule order is compared on
ProbeAmounts == -1 .. MaxBank + 1

ProbeLimits == -1 .. MaxAmt

\* C10: for every player state and every amt, table_max and table_min,
\* validate_bet returns the verdict of the first matching rule, in the order
\* invalid, bank, high, low, passed; bank 100 with total_bets 100 and amt 1
\* gives invalid, bank 1000 with amt 50 and table_max 25 gives high.
C10_ValidateBetRuleOrder ==
    /\ \A amt \in ProbeAmounts, table_max \in ProbeLimits,
          table_min \in ProbeLimits :
          validate_bet(player, amt, table_max, table_min)
             = RuleVerdict(player.bank, player.total_bets, amt,
                           table_max, table_min)
    /\ call = "validate_bet" =>
          \E amt \in ProbeAmounts, table_max \in ProbeLimits,
             table_min \in ProbeLimits :
             ret = RuleVerdict(player.bank, player.total_bets, amt,
                               table_max, table_min)
    /\ validate_bet([bank |-> 100, total_bets |-> 100], 1, 0, 0) = "invalid"
    /\ validate_bet([bank |-> 1000, total_bets |-> 0], 50, 25, 0) = "high"

C10_Witness ==
    /\ call = "validate_bet"
    /\ ret = "bank"
    /\ player.total_bets > 0
    /\ player.hands.one # None

(***************************************************************************)
(* The player's bets.                                                      *)
(***************************************************************************)
\* the insurance bet of a player, 0 when there is none
InsuranceOf(p) == IF p.insurance_bet # None THEN p.insurance_bet[1] ELSE 0

\* the bets of the hands that exist in the two slots
HandBetsOf(p) ==
    (IF p.hands.one = None THEN 0 ELSE p.hands.one[1].bet_amt)
    + (IF p.hands.two = None THEN 0 ELSE p.hands.two[1].bet_amt)

\* C11: after every create_hand, create_split_hand, split_hand, update_bet
\* and create_insurance_bet, total_bets is the insurance bet (0 when there is
\* none) plus the bet_amt of every hand that exists in slots 'one' and 'two'.
C11_TotalBetsIsSum ==
    player.total_bets = InsuranceOf(player) + HandBetsOf(player)

\* a split has succeeded while an insurance bet stands: three bets are summed
C11_Witness ==
    /\ call = "split_hand"
    /\ ret = "success"
    /\ player.insurance_bet # None
    /\ player.hands.one # None
    /\ player.hands.two # None
    /\ player.total_bets
         = player.insurance_bet[1] + player.hands.one[1].bet_amt
           + player.hands.two[1].bet_amt

\* C12: in every state reachable by create_hand, update_bet,
\* create_insurance_bet and split_hand, total_bets is at most bank.
C12_TotalWithinBank == player.total_bets <= player.bank

\* C13: after any sequence of update_bet calls a hand's bet_amt is at most
\* twice the ante the hand was created with.
C13_BetAtMostTwiceAnte ==
    \A which_hand \in WhichHands :
        player.hands[which_hand] # None =>
            player.hands[which_hand][1].bet_amt <= 2 * antes[which_hand][1]

\* the bet on the hand in a slot that holds one
BetOf(p, which_hand) == p.hands[which_hand][1].bet_amt

\* the verdict of the validation rules on a bet of amt for player p
VerdictFor(p, amt, table_max, table_min) ==
    RuleVerdict(p.bank, p.total_bets, amt, table_max, table_min)

\* the amounts a call is tried with in every state: a negative one, zero, and
\* one above the largest the calls of the specification commit
TriedAmounts == -1 .. MaxAmt + 1

\* the player is between calls and holds a hand in the slot
CanUpdate(which_hand) == pc = "idle" /\ player.hands[which_hand] # None

\* C14: update_bet called with an amount greater than the hand's current
\* bet_amt returns "bet" whatever bank and total_bets are, and commits
\* nothing.
C14_BetWhateverTheBank ==
    \A amt \in TriedAmounts, which_hand \in WhichHands,
       table_max \in TableMaxes, table_min \in TableMins :
        (CanUpdate(which_hand) /\ amt > BetOf(player, which_hand))
        => update_bet(player, amt, which_hand, table_max, table_min)
             = [player |-> player, ret |-> "bet"]

\* C14 as amended: update_bet called with an amount greater than the hand's
\* current bet_amt returns "bet" when the raised bet amt + bet_amt passes
\* validation, returns the verdict of that validation when it does not, and
\* commits nothing either way.
C14_BetAfterValidation ==
    \A amt \in TriedAmounts, which_hand \in WhichHands,
       table_max \in TableMaxes, table_min \in TableMins :
        (CanUpdate(which_hand) /\ amt > BetOf(player, which_hand))
        => LET verdict == VerdictFor(player, amt + BetOf(player, which_hand),
                                     table_max, table_min)
           IN  update_bet(player, amt, which_hand, table_max, table_min)
                 = [player |-> player,
                    ret |-> IF verdict = "passed" THEN "bet" ELSE verdict]

\* update_bet has answered "bank" for the only hand of a player whose bank
\* has room for twice that hand's bet: the amount was above the bet
C14_Witness ==
    /\ call = "update_bet"
    /\ ret = "bank"
    /\ \E which_hand \in WhichHands :
          /\ player.hands[which_hand] # None
          /\ \A other \in WhichHands \ {which_hand} :
                player.hands[other] = None
          /\ player.bank - player.total_bets
               >= 2 * BetOf(player, which_hand)

\* C15: update_bet returns "bank" only when amt + total_bets exceeds bank.
C15_BankOnlyWhenRaiseExceedsBank ==
    \A amt \in TriedAmounts, which_hand \in WhichHands,
       table_max \in TableMaxes, table_min \in TableMins :
        (/\ CanUpdate(which_hand)
         /\ update_bet(player, amt, which_hand, table_max, table_min).ret
              = "bank")
        => amt + player.total_bets > player.bank

\* C16: update_bet returns the verdict of validate_bet(amt + bet_amt) when it
\* is not passed; otherwise "bet" when amt exceeds the hand's bet_amt;
\* otherwise it adds amt to the hand's bet_amt, recomputes total_bets, which
\* grows by exactly amt, and returns "success".  On every verdict other than
\* success the hand's bet, the other hand, insurance_bet, total_bets and bank
\* are unchanged.
C16_UpdateBetContract ==
    \A amt \in TriedAmounts, which_hand \in WhichHands,
       table_max \in TableMaxes, table_min \in TableMins :
        CanUpdate(which_hand) =>
            LET bet == BetOf(player, which_hand)
                verdict == VerdictFor(player, amt + bet, table_max, table_min)
                done == update_bet(player, amt, which_hand, table_max,
                                   table_min)
            IN  IF verdict # "passed"
                THEN done = [player |-> player, ret |-> verdict]
                ELSE IF amt > bet
                THEN done = [player |-> player, ret |-> "bet"]
                ELSE /\ done.ret = "success"
                     /\ BetOf(done.player, which_hand) = bet + amt
                     /\ done.player.total_bets = player.total_bets + amt
                     /\ done.player.total_bets
                          = InsuranceOf(done.player) + HandBetsOf(done.player)
                     /\ \A other \in WhichHands \ {which_hand} :
                           done.player.hands[other] = player.hands[other]
                     /\ [done.player.hands[which_hand][1]
                           EXCEPT !.bet_amt = bet]
                          = player.hands[which_hand][1]
                     /\ done.player.insurance_bet = player.insurance_bet
                     /\ done.player.bank = player.bank
                     /\ done.player.reserve = player.reserve

\* update_bet has raised a bet above the ante of its hand
C16_Witness ==
    /\ call = "update_bet"
    /\ ret = "success"
    /\ \E which_hand \in WhichHands :
          /\ player.hands[which_hand] # None
          /\ BetOf(player, which_hand) > antes[which_hand][1]

\* C17: create_hand returns the verdict of validate_bet unchanged when it is
\* not passed and then changes nothing; when it is passed, slot 'one' holds a
\* new empty Regular hand with bet_amt = ante, scores 0 and flags false,
\* total_bets is recomputed and "success" is returned.
C17_CreateHandContract ==
    \A ante \in TriedAmounts, table_max \in TableMaxes,
       table_min \in TableMins :
        pc = "idle" =>
            LET verdict == VerdictFor(player, ante, table_max, table_min)
                done == create_hand(player, ante, table_max, table_min)
            IN  IF verdict # "passed"
                THEN done = [player |-> player, ret |-> verdict]
                ELSE /\ done.ret = "success"
                     /\ done.player.hands.one # None
                     /\ LET h == done.player.hands.one[1]
                        IN  /\ h.hand_type = "regular"
                            /\ h.cards = <<>>
                            /\ h.bet_amt = ante
                            /\ h.soft_score = 0 /\ h.hard_score = 0
                            /\ ~h.has_ace /\ ~h.blackjack
                            /\ ~h.has_pair /\ ~h.busted
                     /\ done.player.total_bets
                          = InsuranceOf(player) + ante + HandBet(player.hands.two)
                     /\ done.player.hands.two = player.hands.two
                     /\ done.player.insurance_bet = player.insurance_bet
                     /\ done.player.bank = player.bank
                     /\ done.player.reserve = player.reserve

\* create_hand has put a new empty hand in slot 'one' while an insurance bet
\* stands, and the total holds both bets
C17_Witness ==
    /\ call = "create_hand"
    /\ ret = "success"
    /\ player.hands.one # None
    /\ player.hands.one[1].hand_type = "regular"
    /\ player.hands.one[1].cards = <<>>
    /\ player.insurance_bet # None
    /\ player.total_bets > player.hands.one[1].bet_amt

\* C18: create_insurance_bet returns the verdict of validate_bet and changes
\* nothing when it is not passed; when it is passed it sets insurance_bet to
\* amt, recomputes total_bets and returns "success", and leaves both hands
\* and the bank unchanged.
C18_CreateInsuranceBetContract ==
    \A amt \in TriedAmounts, table_max \in TableMaxes,
       table_min \in TableMins :
        pc = "idle" =>
            LET verdict == VerdictFor(player, amt, table_max, table_min)
                done == create_insurance_bet(player, amt, table_max, table_min)
            IN  IF verdict # "passed"
                THEN done = [player |-> player, ret |-> verdict]
                ELSE /\ done.ret = "success"
                     /\ done.player.insurance_bet = Some(amt)
                     /\ done.player.total_bets = amt + HandBetsOf(player)
                     /\ done.player.hands = player.hands
                     /\ done.player.bank = player.bank
                     /\ done.player.reserve = player.reserve

\* create_insurance_bet has placed a bet beside the bet of a hand
C18_Witness ==
    /\ call = "create_insurance_bet"
    /\ ret = "success"
    /\ player.insurance_bet # None
    /\ player.hands.one # None
    /\ player.total_bets
         = player.insurance_bet[1] + player.hands.one[1].bet_amt
           + HandBet(player.hands.two)

(***************************************************************************)
(* Splitting.                                                              *)
(***************************************************************************)
\* slot 'one' holds a Regular hand of exactly two cards of one rank
HoldsPair(p) ==
    /\ p.hands.one # None
    /\ p.hands.one[1].hand_type = "regular"
    /\ Len(p.hands.one[1].cards) = 2
    /\ p.hands.one[1].cards[1].rank = p.hands.one[1].cards[2].rank

\* a Split hand that holds exactly the given card with the given bet
IsSplitOf(opt, card, bet) ==
    /\ IsSplit(opt)
    /\ opt[1].cards = <<card>>
    /\ opt[1].bet_amt = bet

\* the step of split_hand that takes the pair apart: the first card and the
\* bet go to a Split hand in slot 'one', the second card is kept aside
SplitsOffFirst ==
    (pc = "split_ask" /\ pc' = "split_loop" /\ HoldsPair(player)) =>
        LET orig == player.hands.one[1]
        IN  /\ IsSplitOf(player'.hands.one, orig.cards[1], orig.bet_amt)
            /\ frame'.orig_bet = Some(orig.bet_amt)
            /\ frame'.card_1 = Some(orig.cards[1])
            /\ frame'.card_2 = Some(orig.cards[2])
            /\ player'.hands.two = player.hands.two
            /\ player'.insurance_bet = player.insurance_bet

\* a pass of the bet loop that does not accept the bet keeps everything
KeepsWhileAsking ==
    (pc = "split_loop" /\ pc' = "split_loop") =>
        (player' = player /\ frame' = frame)

\* the step of split_hand that returns "success": slot 'one' is as the first
\* step left it, slot 'two' holds the card kept aside with the accepted bet
SplitsOffSecond ==
    (pc = "split_loop" /\ ret' = "success") =>
        /\ player'.hands.one = player.hands.one
        /\ IsSplitOf(player'.hands.one, frame.card_1[1], frame.orig_bet[1])
        /\ IsSplit(player'.hands.two)
        /\ player'.hands.two[1].cards = <<frame.card_2[1]>>
        /\ VerdictFor(player, player'.hands.two[1].bet_amt,
                      frame.table_max, frame.table_min) = "passed"
        /\ player'.insurance_bet = player.insurance_bet
        /\ player'.total_bets
             = InsuranceOf(player) + frame.orig_bet[1]
               + player'.hands.two[1].bet_amt

ProbeDecides ==
    (pc = "idle" /\ call' = "split_hand") =>
        \A table_max \in TableMaxes, table_min \in TableMins :
            SplitProbe(table_max, table_min) =>
                LET verdict == VerdictFor(player, 0, table_max, table_min)
                IN  /\ (verdict # "passed") <=> (pc' = "idle")
                    /\ (verdict = "passed") <=> (pc' = "split_ask")
                    /\ pc' = "idle" => ret' = "impossible"
                    /\ player' = player

\* the human's "no" is only heard after a probe that passed; split_hand then
\* returns "declined" and changes nothing of the player
DeclineKeeps ==
    (pc = "split_ask" /\ SplitAnswer("n")) =>
        /\ VerdictFor(player, 0, frame.table_max, frame.table_min) = "passed"
        /\ pc' = "idle"
        /\ ret' = "declined"
        /\ player' = player

\* C20: split_hand returns "impossible" exactly when validate_bet(0,
\* table_max, table_min) is not passed, without asking the human, and
\* "declined" when the probe passed and the human answers no; in both cases
\* hands, cards, bets, insurance_bet, total_bets and bank are unchanged.
C20_ImpossibleOrDeclined == [][ProbeDecides /\ DeclineKeeps]_vars

\* split_hand has returned "impossible" for a player whose pair is intact
C20_Witness ==
    /\ call = "split_hand"
    /\ pc = "idle"
    /\ ret = "impossible"
    /\ HoldsPair(player)

\* C21: in split_hand the second Split hand is created only with an amount
\* for which validate_bet returned passed, judged in the state where slot
\* 'one' already holds the first Split hand with the original bet; an amount
\* judged high, low or bank is asked for again and never committed; so after
\* success total_bets is at most bank.
C21_SecondBetValidated ==
    [][pc = "split_loop" =>
        /\ IsSplitOf(player.hands.one, frame.card_1[1], frame.orig_bet[1])
        /\ \A new_bet_amt \in TriedAmounts :
              SplitBet(new_bet_amt) =>
                  IF VerdictFor(player, new_bet_amt, frame.table_max,
                                frame.table_min) = "passed"
                  THEN /\ ret' = "success"
                       /\ IsSplit(player'.hands.two)
                       /\ player'.hands.two[1].bet_amt = new_bet_amt
                  ELSE /\ pc' = "split_loop"
                       /\ player' = player
        /\ ret' = "success" => player'.total_bets <= player'.bank]_vars

\* C22: validate_bet is a pure function of the player's state and the table
\* limits: whatever the input and the verdict, bank, reserve, total_bets,
\* insurance_bet and the hands with their bets and cards are unchanged by the
\* call, and the verdict is fixed by the player's state and the arguments.
C22_ValidateBetIsPure ==
    /\ [](\A amt \in TriedAmounts, table_max \in TableMaxes,
             table_min \in TableMins :
             validate_bet(player, amt, table_max, table_min)
               = RuleVerdict(player.bank, player.total_bets, amt, table_max,
                             table_min))
    /\ [][call' = "validate_bet" =>
            /\ player' = player
            /\ \E amt \in TriedAmounts, table_max \in TableMaxes,
                  table_min \in TableMins :
                  ret' = RuleVerdict(player.bank, player.total_bets, amt,
                                     table_max, table_min)]_vars

\* validate_bet has rejected a bet for a player who holds two hands and an
\* insurance bet
C22_Witness ==
    /\ call = "validate_bet"
    /\ ret = "bank"
    /\ player.hands.one # None
    /\ player.hands.two # None
    /\ player.insurance_bet # None

\* C23: every Player constructed successfully has bank >= 0 and reserve >= 0,
\* bank being the supplied bank minus the supplied reserve, and bank stays
\* >= 0 in every state reachable afterwards.
C23_BankAndReserveNotNegative ==
    /\ player.bank >= 0
    /\ player.reserve >= 0
    /\ call = "__init__" =>
          \E bank \in 0 .. MaxBank, reserve \in 0 .. MaxReserve :
              /\ player.bank = bank - reserve
              /\ player.reserve = reserve

\* C24: a Player constructed successfully for a given table_min can always
\* make its first ante: on the freshly constructed player
\* create_hand(table_min, 0, table_min) returns "success".
C24_FirstAnteSucceeds ==
    \A bank \in 0 .. MaxBank, reserve \in 0 .. MaxReserve,
       table_min \in TableMins :
        (/\ call = "__init__"
         /\ ~BankTooSmall(bank, table_min)
         /\ player = Player__init__(bank, reserve, table_min))
        => create_hand(player, table_min, 0, table_min).ret = "success"

\* C25: no hand or bet operation (create_hand, add_card_to_hand, split_hand,
\* update_bet, create_insurance_bet, validate_bet) changes bank or reserve:
\* the reserve taken out at construction is never added back to the bank.
C25_BankAndReserveKept ==
    [][player'.bank = player.bank /\ player'.reserve = player.reserve]_vars

\* a player with a reserve has anted, insured and split
C25_Witness ==
    /\ player.reserve > 0
    /\ call = "split_hand"
    /\ ret = "success"
    /\ player.insurance_bet # None
    /\ player.total_bets > 0

(***************************************************************************)
(* Dealing to a hand.                                                      *)
(***************************************************************************)
\* the value of a card by its rank, an Ace counted as 1
LowValue(card) ==
    IF card.rank = "A" THEN 1
    ELSE IF card.rank \in {"J", "Q", "K"} THEN 10
    ELSE IntOfRank[card.rank]

\* the sum of LowValue over the first n cards
RECURSIVE LowSum(_, _)
LowSum(cards, n) ==
    IF n = 0 THEN 0 ELSE LowSum(cards, n - 1) + LowValue(cards[n])

\* C26: receive_card appends the new card at the end of cards and changes no
\* card already in the hand, and after every receive_card hard_score is the
\* sum of the values of all cards with every Ace counted as 1; [10, 9, King]
\* gives hard_score 29, soft_score 29 and busted true.
C26_AppendsAndSumsHard ==
    [][\A top_card \in DealtCards :
          ReceiveCard(top_card) =>
              /\ hand'.cards = hand.cards \o <<top_card>>
              /\ hand'.hard_score = LowSum(hand'.cards, Len(hand'.cards))
              /\ RanksOf(hand'.cards) = <<"10", "9", "K">> =>
                    /\ hand'.hard_score = 29
                    /\ hand'.soft_score = 29
                    /\ hand'.busted]_vars

\* the hand [10, 9, King], busted at 29
C26_Witness ==
    /\ RanksOf(hand.cards) = <<"10", "9", "K">>
    /\ hand.hard_score = 29
    /\ hand.busted

(***************************************************************************)
(* The shoe.                                                               *)
(***************************************************************************)
\* how many times a card occurs in a list
Copies(cards, card) == Cardinality({i \in DOMAIN cards : cards[i] = card})

\* the cards drawn so far followed by the cards still in the shoe
ShoeLife == drawn \o shoe.shuffled_deck

\* the shoe's cards, drawn or not, are N decks for some N in 1 .. 8: 52 * N
\* cards, N of each rank-suit combination
WholeDecks ==
    \E n \in 1 .. 8 :
        /\ Len(ShoeLife) = 52 * n
        /\ shoe.length = 52 * n
        /\ \A card \in DeckCards : Copies(ShoeLife, card) = n

\* a remove_top step returns the card at the front and leaves the rest, one
\* card fewer, or fails on an empty shoe; nothing is ever put into the shoe
DrawsFront ==
    /\ drawn' \o shoe'.shuffled_deck = ShoeLife
    /\ call' = "remove_top" =>
          IF shoe.shuffled_deck = <<>>
          THEN ret' = Raised("IndexError") /\ shoe' = shoe /\ drawn' = drawn
          ELSE /\ ret' = shoe.shuffled_deck[1]
               /\ shoe'.shuffled_deck = Tail(shoe.shuffled_deck)
               /\ Len(shoe'.shuffled_deck) = Len(shoe.shuffled_deck) - 1
               /\ drawn' = Append(drawn, ret')

\* C27: a CardShoe of N decks (1 <= N <= 8) starts with 52*N cards, N copies
\* of each of the 52 rank-suit combinations; each remove_top returns the card
\* at the front and shortens the shoe by exactly one, the shoe is never
\* refilled, so every constructed card is drawn exactly once in stored
\* order, and a draw from an exhausted shoe fails with an error.
C27_ShoeDrawnOnceInOrder ==
    /\ (drawn = <<>> /\ Len(shoe.shuffled_deck) = shoe.length)
    /\ []WholeDecks
    /\ [][DrawsFront]_vars

\* a shoe of two decks has been drawn to the end and the next draw has
\* failed
C27_Witness ==
    /\ call = "remove_top"
    /\ shoe.shuffled_deck = <<>>
    /\ Len(drawn) = 2 * 52
    /\ ret = Raised("IndexError")

\* C28: receive_card called with an object that is not a Card or an Ace is
\* rejected with a type error, and the hand's cards, scores and flags are
\* exactly as before the call.
C28_NonCardRejected ==
    [][\A obj \in NonCards :
          ReceiveNonCard(obj) =>
              (pc' = "raised" /\ ret' = "TypeError" /\ hand' = hand)]_vars

\* has_ace tells whether the hand holds an Ace
AceExact ==
    hand.has_ace <=> (\E i \in DOMAIN hand.cards : hand.cards[i].rank = "A")

\* C29: for every hand type has_ace is exact and monotonic: it is true if and
\* only if at least one card in the hand, the seed card of a Split hand
\* included, is an Ace, and once true no later card resets it.
C29_HasAceExactAndMonotonic ==
    /\ []AceExact
    /\ [][hand.has_ace => hand'.has_ace]_vars

\* a Split hand seeded with an Ace has received other cards and still has
\* has_ace
C29_Witness ==
    /\ hand.hand_type = "split"
    /\ Len(hand.cards) >= 2
    /\ hand.cards[1].rank = "A"
    /\ \A i \in 2 .. Len(hand.cards) : hand.cards[i].rank # "A"
    /\ hand.has_ace

\* the ranks of the ten-value cards
TenRanks == {"10", "J", "Q", "K"}

\* an Ace with a ten-value card, in either order
AceAndTen(cards) ==
    \/ cards[1].rank = "A" /\ cards[2].rank \in TenRanks
    \/ cards[2].rank = "A" /\ cards[1].rank \in TenRanks

\* C30: immediately after the second card is received by a Regular or Dealer
\* hand, blackjack is true if and only if the two cards are one value-1 card
\* and one value-10 card (10, J, Q or K with an Ace) in either order;
\* [Ace(S), King(H)] and [King(H), Ace(S)] both give blackjack true,
\* soft_score 21 and hard_score 11; two ten-value cards or two Aces give
\* blackjack false.
C30_BlackjackAtSecondCard ==
    [][(/\ hand.hand_type # "split"
        /\ Len(hand.cards) = 1
        /\ Len(hand'.cards) = 2) =>
          /\ hand'.blackjack <=> AceAndTen(hand'.cards)
          /\ hand'.cards \in {<<Ace("S"), Card("K", "H")>>,
                               <<Card("K", "H"), Ace("S")>>} =>
                /\ hand'.blackjack
                /\ hand'.soft_score = 21
                /\ hand'.hard_score = 11
          /\ (\A i \in 1 .. 2 : hand'.cards[i].rank \in TenRanks)
                => ~hand'.blackjack
          /\ (\A i \in 1 .. 2 : hand'.cards[i].rank = "A")
                => ~hand'.blackjack]_vars

\* the Dealer hand [King(H), Ace(S)] right after its second card
C30_Witness ==
    /\ hand.hand_type = "dealer"
    /\ hand.cards = <<Card("K", "H"), Ace("S")>>
    /\ hand.blackjack
    /\ hand.soft_score = 21
    /\ hand.hard_score = 11

(***************************************************************************)
(* The zero-amount probe and the verdicts that cannot happen.              *)
(***************************************************************************)
\* the table limits a table can have: no negative minimum, and a maximum
\* that is either absent (0) or at least the minimum and at least 1
SaneLimits(table_max, table_min) ==
    /\ table_min >= 0
    /\ table_max = 0 \/ (table_max >= table_min /\ table_max >= 1)

\* the positive amounts a bet is compared on
PositiveAmounts == 1 .. MaxBank + 1

\* C31: for table limits with table_min >= 0 and table_max either 0 or
\* >= max(table_min, 1), validate_bet(0, table_max, table_min) returns only
\* passed or invalid, never low, high or bank, and it returns passed if and
\* only if some amount > 0 would be judged passed in the same state.
C31_ZeroProbeExact ==
    \A table_max \in ProbeLimits, table_min \in ProbeLimits :
        SaneLimits(table_max, table_min) =>
            LET probe == validate_bet(player, 0, table_max, table_min)
            IN  /\ probe \in {"passed", "invalid"}
                /\ (probe = "passed") <=>
                      \E amt \in PositiveAmounts :
                         validate_bet(player, amt, table_max, table_min)
                            = "passed"

\* a player with bets placed and money left whose probe passes at a table
\* without a minimum and fails at a table with a minimum of 2
C31_Witness ==
    /\ pc = "idle"
    /\ player.total_bets > 0
    /\ player.total_bets < player.bank
    /\ validate_bet(player, 0, 2, 0) = "passed"
    /\ validate_bet(player, 0, 2, 2) = "invalid"
    /\ call = "split_hand"

\* C32: for a hand whose bet was committed by create_hand (or by a split)
\* under the same table_max and table_min, update_bet never returns low and
\* never returns invalid: its only possible results are success, high, bet
\* and bank.  Stated where every call is made with the same table limits.
C32_UpdateBetNeverLowOrInvalid ==
    (pc = "idle" /\ call = "update_bet") =>
        ret \in {"success", "high", "bet", "bank"}

\* the verdict of validate_bet on an amount in the bet loop of split_hand
LoopVerdict(amt) ==
    validate_bet(player, amt, frame.table_max, frame.table_min)

\* the steps of split_hand from the human's "yes" to the end of the loop
LoopSteps ==
    /\ (pc = "split_ask" /\ pc' = "split_loop") =>
          /\ player'.total_bets = player.total_bets
          /\ LoopVerdict(0) = "passed"
    /\ (pc = "split_loop" /\ pc' = "split_loop") =>
          ret' \in {"high", "low", "bank"}
    /\ (pc = "split_loop" /\ pc' = "idle" /\ ret' # "ValueError") =>
          /\ ret' = "success"
          /\ \E amt \in TriedAmounts :
                /\ LoopVerdict(amt) = "passed"
                /\ player'.hands.two[1].bet_amt = amt

\* C33: inside the bet loop of split_hand validate_bet never returns
\* invalid: the eligibility the probe established still holds after the
\* first Split hand has replaced the original hand, because total_bets is
\* the same before and after that replacement; the only verdicts seen in the
\* loop are passed, high, low and bank.
C33_NoInvalidInLoop ==
    /\ [](pc = "split_loop" =>
            \A amt \in TriedAmounts :
               LoopVerdict(amt) \in {"passed", "high", "low", "bank"})
    /\ [][LoopSteps]_vars

\* the bet loop at a table with a minimum of 2, the first Split hand in
\* place: an amount of 1 is low, the largest amount is high or over the bank
C33_Witness ==
    /\ pc = "split_loop"
    /\ frame.table_min = 2
    /\ player.hands.one[1].hand_type = "split"
    /\ LoopVerdict(1) = "low"
    /\ LoopVerdict(2) = "passed"
    /\ LoopVerdict(MaxAmt) \in {"high", "bank"}

\* C34: once the probe of split_hand has passed and the human has agreed to
\* split, every state of the bet loop has at least one amount that
\* validate_bet accepts, so success is reachable from every loop state and
\* an input that eventually is an accepted amount ends split_hand with
\* success; split_hand never leaves the loop in any other way.  The formula
\* is the safety half: an accepted amount exists in every loop state, and
\* every step out of the loop returns success.
C34_LoopEndsOnlyWithSuccess ==
    /\ [](pc = "split_loop" =>
            \E amt \in PositiveAmounts : LoopVerdict(amt) = "passed")
    /\ [][(pc = "split_loop" /\ pc' # "split_loop") =>
            ret' = "success"]_vars

(***************************************************************************)
(* The hands a player holds.                                               *)
(***************************************************************************)
\* C35: at every operation boundary a player holds either no hand, exactly
\* one Regular hand in slot 'one' with slot 'two' empty, or two Split hands
\* in slots 'one' and 'two'; slot 'two' is never occupied while slot 'one'
\* is empty or holds a Regular hand, whatever sequence of create_hand and
\* split_hand calls is made.  The formula is the last part, which each of
\* the three shapes implies: a hand in slot 'two' goes with a Split hand in
\* slot 'one'.
C35_SlotTwoOnlyBesideSplit ==
    player.hands.two # None => IsSplit(player.hands.one)

(***************************************************************************)
(* Committed bets and the table limits.                                    *)
(***************************************************************************)
\* C36: every bet committed through the player's operations respects the
\* table limits passed to the committing call: with table_min > 0 the
\* bet_amt set by create_hand, the insurance_bet set by
\* create_insurance_bet and the second Split hand's bet are >= table_min;
\* with table_max > 0 these and the raised bet_amt set by update_bet are
\* <= table_max; and no committed bet is negative.  Stated where every call
\* is made with the same table minimum and no table maximum.
C36_BetsRespectLimits ==
    \A table_min \in MinOnly :
        /\ \A which_hand \in WhichHands :
              player.hands[which_hand] # None =>
                 /\ BetOf(player, which_hand) >= table_min
                 /\ BetOf(player, which_hand) >= 0
        /\ player.insurance_bet # None =>
              /\ player.insurance_bet[1] >= table_min
              /\ player.insurance_bet[1] >= 0

(***************************************************************************)
(* The hands that are still in play.                                       *)
(***************************************************************************)
\* the slots that hold a hand that is not busted
LiveSlots(p) ==
    {which_hand \in WhichHands :
        p.hands[which_hand] # None /\ ~p.hands[which_hand][1].busted}

\* a call of add_card_to_hand: it returns whether the hand it dealt to is
\* not busted afterwards, and the player's length does not grow
AddCardReturn ==
    call' = "add_card_to_hand" =>
        /\ \A which_hand \in WhichHands :
              player'.hands[which_hand] # player.hands[which_hand] =>
                 (ret' <=> ~player'.hands[which_hand][1].busted)
        /\ \E which_hand \in WhichHands :
              player'.hands[which_hand] # player.hands[which_hand]
        /\ Player__len__(player') <= Player__len__(player)

\* C37: add_card_to_hand(card, which_hand) returns True if and only if the
\* chosen hand is not busted after receiving the card, and at any time the
\* player's length (__len__) equals the number of slots 'one' and 'two' that
\* hold a hand that is not busted, a value in 0..2 that never increases
\* while cards are only being added.
C37_AddCardReturnAndLength ==
    /\ [](/\ Player__len__(player) = Cardinality(LiveSlots(player))
          /\ Player__len__(player) \in 0 .. 2)
    /\ [][AddCardReturn]_vars

\* a card has been added to a hand that was busted already, beside a hand
\* that is still in play
C37_Witness ==
    /\ call = "add_card_to_hand"
    /\ ret = FALSE
    /\ Player__len__(player) = 1
    /\ \E which_hand \in WhichHands :
          /\ player.hands[which_hand] # None
          /\ player.hands[which_hand][1].busted
          /\ Len(player.hands[which_hand][1].cards) = MaxBustCards

====
